---- MODULE Spec2Model ----
(***************************************************************************)
(* Model of deployment_pipeline.py: the ZenML steps deployment_trigger,    *)
(* prediction_service_loader and predictor, and the two pipelines          *)
(* continuous_deployment_pipeline and inference_pipeline.                  *)
(*                                                                         *)
(* Floating-point scores are modelled as integers on a fixed scale; only   *)
(* their order matters to the code.  Calls into the external frameworks    *)
(* (the model deployer, the model service) are recorded in `calls` and     *)
(* their outcomes are chosen nondeterministically.                         *)
(***************************************************************************)
EXTENDS Integers, Sequences, FiniteSets, TLC

VARIABLES
    pc,        \* position of the running step or pipeline
    inp,       \* arguments of the step or pipeline being run
    art,       \* artifacts passed between the steps of a pipeline
    out,       \* result of the last step: value returned or error raised
    services,  \* the model deployer's registry of model services
    calls,     \* calls made into the external frameworks, in order
    trace      \* names of the steps executed so far, in order

vars == <<pc, inp, art, out, services, calls, trace>>

----------------------------------------------------------------------------
(* Bounds *)

MaxScore == 4
MaxServices == 2
MaxRows == 2

Scores == (0 - MaxScore)..MaxScore

----------------------------------------------------------------------------
(* Values *)

PipelineNames == {"continuous_deployment_pipeline", "other_pipeline"}
StepNames == {"mlflow_model_deployer_step", "other_step"}
ModelNames == {"model", "other_model"}

None == [raised |-> FALSE, value |-> 0]

NoService ==
    [id |-> 0, pipeline_name |-> "", pipeline_step_name |-> "",
     model_name |-> "", is_running |-> FALSE]

ServiceRecords(i) ==
    [id : {i}, pipeline_name : PipelineNames, pipeline_step_name : StepNames,
     model_name : ModelNames, is_running : BOOLEAN]

\* registries of up to MaxServices services; the service at position i has id i
Registries ==
    UNION {{r \in [1..n -> UNION {ServiceRecords(i) : i \in 1..n}] :
                \A i \in 1..n : r[i].id = i} : n \in 0..MaxServices}

----------------------------------------------------------------------------
(* DeploymentTriggerConfig and deployment_trigger *)

DeploymentTriggerConfig == [min_accuracy |-> 0]

deployment_trigger_ge(accuracy, config) == accuracy >= config.min_accuracy

deployment_trigger(accuracy, config) == accuracy > config.min_accuracy

----------------------------------------------------------------------------
(* MLFlowModelDeployer.find_model_server as the loader uses it: the        *)
(* services of the registry that match the three names, and, when          *)
(* `running` is set, only those that are running.                          *)

find_model_server(registry, pipeline_name, pipeline_step_name, model_name, running) ==
    SelectSeq(registry,
              LAMBDA s : /\ s.pipeline_name = pipeline_name
                         /\ s.pipeline_step_name = pipeline_step_name
                         /\ s.model_name = model_name
                         /\ (running => s.is_running))

NoQuery ==
    [pipeline_name |-> "", pipeline_step_name |-> "", model_name |-> "",
     running |-> FALSE]

NoArray == [shape |-> <<>>, dtype |-> "", items |-> <<>>]

FindCall(pipeline_name, pipeline_step_name, model_name, running) ==
    [op |-> "find_model_server", svc |-> 0, timeout |-> 0,
     query |-> [pipeline_name |-> pipeline_name,
                pipeline_step_name |-> pipeline_step_name,
                model_name |-> model_name, running |-> running],
     data |-> NoArray, result |-> 0]

LoaderMessage(pipeline_name, pipeline_step_name, model_name) ==
    <<"No MLFlow Deployment service found for pipeline ", pipeline_name,
      ". step ", pipeline_step_name, " and model ", model_name,
      ". Pipeline for the '", model_name, "' model is currently running.">>

\* mutant: returns the last matching service
prediction_service_loader_last(registry, pipeline_name, pipeline_step_name, running, model_name) ==
    LET existing_services ==
            find_model_server(registry, pipeline_name, pipeline_step_name,
                              model_name, running)
        query == FindCall(pipeline_name, pipeline_step_name, model_name, running)
    IN  IF existing_services = <<>>
        THEN [raised |-> TRUE,
              message |-> LoaderMessage(pipeline_name, pipeline_step_name, model_name),
              service |-> NoService, calls |-> <<query>>]
        ELSE [raised |-> FALSE, message |-> <<>>,
              service |-> existing_services[Len(existing_services)],
              calls |-> <<query>>]

\* mutant: on an empty result, looks up again without the running filter
prediction_service_loader_retry(registry, pipeline_name, pipeline_step_name, running, model_name) ==
    LET existing_services ==
            find_model_server(registry, pipeline_name, pipeline_step_name,
                              model_name, running)
        query == FindCall(pipeline_name, pipeline_step_name, model_name, running)
        again == find_model_server(registry, pipeline_name, pipeline_step_name,
                                   model_name, FALSE)
    IN  IF existing_services # <<>>
        THEN [raised |-> FALSE, message |-> <<>>,
              service |-> existing_services[1], calls |-> <<query>>]
        ELSE IF again # <<>>
        THEN [raised |-> FALSE, message |-> <<>>, service |-> again[1],
              calls |-> <<query, FindCall(pipeline_name, pipeline_step_name,
                                          model_name, FALSE)>>]
        ELSE [raised |-> TRUE,
              message |-> LoaderMessage(pipeline_name, pipeline_step_name, model_name),
              service |-> NoService,
              calls |-> <<query, FindCall(pipeline_name, pipeline_step_name,
                                          model_name, FALSE)>>]

prediction_service_loader(registry, pipeline_name, pipeline_step_name, running, model_name) ==
    LET existing_services ==
            find_model_server(registry, pipeline_name, pipeline_step_name,
                              model_name, running)
        query == FindCall(pipeline_name, pipeline_step_name, model_name, running)
    IN  IF existing_services = <<>>
        THEN [raised |-> TRUE,
              message |-> LoaderMessage(pipeline_name, pipeline_step_name, model_name),
              service |-> NoService, calls |-> <<query>>]
        ELSE [raised |-> FALSE, message |-> <<>>,
              service |-> existing_services[1], calls |-> <<query>>]

----------------------------------------------------------------------------
(* predictor: the request payload, and the reshaping of its "data" field   *)

columns_for_df ==
    <<"payment_sequential", "payment_installments", "payment_value", "price",
      "freight_value", "product_name_lenght", "product_description_lenght",
      "product_photos_qty", "product_weight_g", "product_length_cm",
      "product_height_cm", "product_width_cm">>

StartTimeout == 10

\* the missing value pandas pads a short row with
NaN == 0 - 999

Reverse(s) == [i \in 1..Len(s) |-> s[Len(s) + 1 - i]]

Max(S) == CHOOSE m \in S : \A x \in S : x <= m

PayloadKeys == {"columns", "index", "data"}

\* json.loads(data): the payload text is modelled by what it parses to, or
\* by the fact that it does not parse
json_loads_payload(payload) ==
    IF payload.wellformed
    THEN [raised |-> FALSE,
          dict |-> [keys |-> payload.keys, columns |-> payload.columns,
                    index |-> payload.index, data |-> payload.data]]
    ELSE [raised |-> TRUE,
          dict |-> [keys |-> {}, columns |-> <<>>, index |-> <<>>, data |-> <<>>]]

\* dict.pop(key) for a key that is present
pop(dict, key) == [dict EXCEPT !.keys = dict.keys \ {key}]

\* pd.DataFrame(rows, columns=columns): a default 0..n-1 index, one column per
\* name; the widest row must have as many values as there are names, and
\* shorter rows are padded with missing values
DataFrame(rows, columns) ==
    LET n == Len(rows)
        width == IF n = 0 THEN 0 ELSE Max({Len(rows[i]) : i \in 1..n})
    IN  IF n > 0 /\ width # Len(columns)
        THEN [raised |-> TRUE, index |-> <<>>, columns |-> <<>>, values |-> <<>>]
        ELSE [raised |-> FALSE,
              index |-> [i \in 1..n |-> i - 1],
              columns |-> columns,
              values |-> [i \in 1..n |->
                            [k \in 1..Len(columns) |->
                                IF k <= Len(rows[i]) THEN rows[i][k] ELSE NaN]]]

\* df.T
Transpose(df) ==
    [raised |-> df.raised,
     index |-> df.columns,
     columns |-> df.index,
     values |-> [k \in 1..Len(df.columns) |->
                    [i \in 1..Len(df.index) |-> df.values[i][k]]]]

\* df.to_dict(): an insertion-ordered dict {column: {index label: value}},
\* as a sequence of <<key, value>> pairs
to_dict(df) ==
    [c \in 1..Len(df.columns) |->
        <<df.columns[c],
          [r \in 1..Len(df.index) |-> <<df.index[r], df.values[r][c]>>]>>]

\* list(d.values())
dict_values(d) == [i \in 1..Len(d) |-> d[i][2]]

\* json.dumps of a list of dicts with string keys and numeric values
json_dumps(list) ==
    [type |-> "array",
     elements |-> [i \in 1..Len(list) |->
                     [type |-> "object",
                      members |-> [k \in 1..Len(list[i]) |->
                                     [name |-> list[i][k][1],
                                      number |-> list[i][k][2]]]]]]

\* json.loads of that text
json_loads(text) ==
    [i \in 1..Len(text.elements) |->
        [k \in 1..Len(text.elements[i].members) |->
            <<text.elements[i].members[k].name,
              text.elements[i].members[k].number>>]]

\* np.array(list of dicts): a one-dimensional array of objects
np_array(list) ==
    [shape |-> <<Len(list)>>,
     dtype |-> IF Len(list) = 0 THEN "float64" ELSE "object",
     items |-> list]

\* mutant: the feature names are attached in reverse order
reshape_reversed(dict) ==
    LET df == DataFrame(dict.data, Reverse(columns_for_df))
        json_list == json_loads(json_dumps(dict_values(to_dict(Transpose(df)))))
    IN  [raised |-> df.raised, data |-> np_array(json_list)]

\* mutant: the frame's values are forwarded as a two-dimensional array
reshape_flat(dict) ==
    LET df == DataFrame(dict.data, columns_for_df)
    IN  [raised |-> df.raised,
         data |-> [shape |-> <<Len(df.values), Len(columns_for_df)>>,
                   dtype |-> "float64", items |-> df.values]]

\* lines 123-125 of predictor: the array built from the parsed payload
reshape(dict) ==
    LET df == DataFrame(dict.data, columns_for_df)
        json_list == json_loads(json_dumps(dict_values(to_dict(Transpose(df)))))
    IN  [raised |-> df.raised, data |-> np_array(json_list)]

StartCall(service) ==
    [op |-> "start", svc |-> service.id, timeout |-> StartTimeout,
     query |-> NoQuery, data |-> NoArray, result |-> 0]

\* service.predict(data), with what the service answered
PredictCall(service, data, response) ==
    [op |-> "predict", svc |-> service.id, timeout |-> 0,
     query |-> NoQuery, data |-> data, result |-> response.value]

Raise(error, calls_made, started) ==
    [raised |-> TRUE, error |-> error, value |-> 0, calls |-> calls_made,
     started |-> started]

\* the payload steps of predictor, after service.start has returned
predictor_body(service, data, response, start) ==
    LET parsed == json_loads_payload(data)
        dict == pop(pop(parsed.dict, "columns"), "index")
        shaped == reshape(dict)
    IN  IF parsed.raised THEN Raise("JSONDecodeError", start, TRUE)
        ELSE IF "columns" \notin parsed.dict.keys THEN Raise("KeyError", start, TRUE)
        ELSE IF "index" \notin parsed.dict.keys THEN Raise("KeyError", start, TRUE)
        ELSE IF "data" \notin dict.keys THEN Raise("KeyError", start, TRUE)
        ELSE IF shaped.raised THEN Raise("ValueError", start, TRUE)
        ELSE LET prediction == PredictCall(service, shaped.data, response)
                 made == start \o <<prediction>>
             IN  IF response.raised
                 THEN Raise("PredictError", made, TRUE)
                 ELSE [raised |-> FALSE, error |-> "", value |-> prediction.result,
                       calls |-> made, started |-> TRUE]

\* mutant: the payload is parsed and checked before the service is started
predictor_parse_first(service, data, start_ok, response) ==
    LET parsed == json_loads_payload(data)
        dict == pop(pop(parsed.dict, "columns"), "index")
        shaped == reshape(dict)
    IN  IF parsed.raised THEN Raise("JSONDecodeError", <<>>, FALSE)
        ELSE IF "columns" \notin parsed.dict.keys THEN Raise("KeyError", <<>>, FALSE)
        ELSE IF "index" \notin parsed.dict.keys THEN Raise("KeyError", <<>>, FALSE)
        ELSE IF "data" \notin dict.keys THEN Raise("KeyError", <<>>, FALSE)
        ELSE IF shaped.raised THEN Raise("ValueError", <<>>, FALSE)
        ELSE IF ~start_ok THEN Raise("RuntimeError", <<StartCall(service)>>, FALSE)
        ELSE predictor_body(service, data, response, <<StartCall(service)>>)

\* mutant: the service is only started when it is not already running
predictor_start_if_stopped(service, data, start_ok, response) ==
    IF service.is_running
    THEN predictor_body(service, data, response, <<>>)
    ELSE IF ~start_ok
    THEN Raise("RuntimeError", <<StartCall(service)>>, FALSE)
    ELSE predictor_body(service, data, response, <<StartCall(service)>>)

\* predictor(service, data); start_ok and response are the outcomes of the
\* two calls into the service: start returns or times out, predict returns a
\* value or raises
predictor(service, data, start_ok, response) ==
    IF ~start_ok
    THEN Raise("RuntimeError", <<StartCall(service)>>, FALSE)
    ELSE predictor_body(service, data, response, <<StartCall(service)>>)

\* the registry after service.start has returned for the service `id`
Started(registry, id) ==
    [i \in 1..Len(registry) |->
        IF registry[i].id = id
        THEN [registry[i] EXCEPT !.is_running = TRUE]
        ELSE registry[i]]

----------------------------------------------------------------------------
(* Inputs of predictor *)

Rows ==
    {[k \in 1..Len(columns_for_df) |-> k],
     [k \in 1..Len(columns_for_df) |-> Len(columns_for_df) + 1 - k],
     [k \in 1..Len(columns_for_df) |-> 0],
     [k \in 1..(Len(columns_for_df) - 1) |-> k]}

DataFields == UNION {[1..n -> Rows] : n \in 0..MaxRows}

IndexFields(n) == {[i \in 1..n |-> i - 1], [i \in 1..n |-> n - i]}

Payloads ==
    UNION {[wellformed : {TRUE}, keys : {PayloadKeys},
            columns : {columns_for_df, Reverse(columns_for_df)},
            index : IndexFields(Len(d)), data : {d}] : d \in DataFields}
    \cup [wellformed : {TRUE}, keys : (SUBSET PayloadKeys) \ {PayloadKeys},
          columns : {columns_for_df}, index : {<<0>>},
          data : {<<[k \in 1..Len(columns_for_df) |-> k]>>}]
    \cup [wellformed : {FALSE}, keys : {{}}, columns : {<<>>}, index : {<<>>},
          data : {<<>>}]

PredictionValues == 1..2

Responses ==
    {[raised |-> TRUE, value |-> 0]}
    \cup [raised : {FALSE}, value : PredictionValues]

----------------------------------------------------------------------------
(* The step deployment_trigger run on its own *)

InitTrigger ==
    /\ pc = "start"
    /\ inp \in [accuracy : Scores, config : [min_accuracy : Scores]]
    /\ art = None
    /\ out = None
    /\ services = <<>>
    /\ calls = <<>>
    /\ trace = <<>>

DeploymentTriggerStep ==
    /\ pc = "start"
    /\ pc' = "done"
    /\ out' = [raised |-> FALSE,
               value |-> deployment_trigger(inp.accuracy, inp.config)]
    /\ trace' = Append(trace, "deployment_trigger")
    /\ UNCHANGED <<inp, art, services, calls>>

NextTrigger == DeploymentTriggerStep

SpecTrigger == InitTrigger /\ [][NextTrigger]_vars

----------------------------------------------------------------------------
(* The step prediction_service_loader run on its own *)

InitLoader ==
    /\ pc = "start"
    /\ inp \in [pipeline_name : PipelineNames, pipeline_step_name : StepNames,
                running : BOOLEAN, model_name : ModelNames]
    /\ art = None
    /\ out = None
    /\ services \in Registries
    /\ calls = <<>>
    /\ trace = <<>>

PredictionServiceLoaderStep ==
    /\ pc = "start"
    /\ LET r == prediction_service_loader(services, inp.pipeline_name,
                    inp.pipeline_step_name, inp.running, inp.model_name)
       IN  /\ out' = r
           /\ calls' = calls \o r.calls
           /\ pc' = IF r.raised THEN "failed" ELSE "done"
    /\ trace' = Append(trace, "prediction_service_loader")
    /\ UNCHANGED <<inp, art, services>>

NextLoader == PredictionServiceLoaderStep

SpecLoader == InitLoader /\ [][NextLoader]_vars

----------------------------------------------------------------------------
(* The step predictor run on its own *)

InitPredictor ==
    /\ pc = "start"
    /\ services \in {r \in Registries : Len(r) = 1}
    /\ inp \in [service : {services[1]}, data : Payloads]
    /\ art = None
    /\ out = None
    /\ calls = <<>>
    /\ trace = <<>>

PredictorStep ==
    /\ pc = "start"
    /\ \E start_ok \in BOOLEAN, response \in Responses :
          LET r == predictor(inp.service, inp.data, start_ok, response)
          IN  /\ out' = r
              /\ calls' = calls \o r.calls
              /\ services' = IF r.started
                             THEN Started(services, inp.service.id)
                             ELSE services
              /\ pc' = IF r.raised THEN "failed" ELSE "done"
    /\ trace' = Append(trace, "predictor")
    /\ UNCHANGED <<inp, art>>

NextPredictor == PredictorStep

SpecPredictor == InitPredictor /\ [][NextPredictor]_vars

----------------------------------------------------------------------------
(* continuous_deployment_pipeline *)

DataPaths == {"data/olist_customers_dataset.csv"}
Workers == 1..2
Timeouts == {60, 120}
ModelIds == 1..2

NoArtifact == [by |-> "none"]

DeployedService(n) ==
    [id |-> n, pipeline_name |-> "continuous_deployment_pipeline",
     pipeline_step_name |-> "mlflow_model_deployer_step",
     model_name |-> "model", is_running |-> TRUE]

InitCD ==
    /\ pc = "start"
    /\ inp \in [data_path : DataPaths, min_accuracy : Scores,
                workers : Workers, timeout : Timeouts]
    /\ art = [df |-> NoArtifact, split |-> NoArtifact, model |-> NoArtifact,
              evaluated |-> NoArtifact, r2_score |-> 0, rmse |-> 0,
              deployment_decision |-> FALSE]
    /\ out = None
    /\ services = <<>>
    /\ calls = <<>>
    /\ trace = <<>>

\* df = ingest_df(data_path=data_path)
ingest_df ==
    /\ pc = "start"
    /\ pc' = "ingested"
    /\ art' = [art EXCEPT !.df = [by |-> "ingest_df", data_path |-> inp.data_path]]
    /\ trace' = Append(trace, "ingest_df")
    /\ UNCHANGED <<inp, out, services, calls>>

\* X_train, X_test, y_train, y_test = clean_df(df)
clean_df ==
    /\ pc = "ingested"
    /\ pc' = "cleaned"
    /\ art' = [art EXCEPT !.split = [by |-> "clean_df", df |-> art.df]]
    /\ trace' = Append(trace, "clean_df")
    /\ UNCHANGED <<inp, out, services, calls>>

\* model = train_model(X_train, X_test, y_train, y_test)
train_model ==
    /\ pc = "cleaned"
    /\ pc' = "trained"
    /\ \E id \in ModelIds :
          art' = [art EXCEPT !.model = [by |-> "train_model", id |-> id,
                                        split |-> art.split]]
    /\ trace' = Append(trace, "train_model")
    /\ UNCHANGED <<inp, out, services, calls>>

\* r2_score, rmse = evaluate_model(model, X_test, y_test)
evaluate_model ==
    /\ pc = "trained"
    /\ pc' = "evaluated"
    /\ \E r2 \in Scores, e \in Scores :
          art' = [art EXCEPT !.evaluated = art.model, !.r2_score = r2, !.rmse = e]
    /\ trace' = Append(trace, "evaluate_model")
    /\ UNCHANGED <<inp, out, services, calls>>

\* mutant: the trigger is given the rmse
cd_deployment_trigger_rmse ==
    /\ pc = "evaluated"
    /\ pc' = "triggered"
    /\ art' = [art EXCEPT !.deployment_decision =
                  deployment_trigger(art.rmse, DeploymentTriggerConfig)]
    /\ trace' = Append(trace, "deployment_trigger")
    /\ UNCHANGED <<inp, out, services, calls>>

\* deployment_decision = deployment_trigger(r2_score): no config is passed,
\* so the step runs with the default DeploymentTriggerConfig
cd_deployment_trigger ==
    /\ pc = "evaluated"
    /\ pc' = "triggered"
    /\ art' = [art EXCEPT !.deployment_decision =
                  deployment_trigger(art.r2_score, DeploymentTriggerConfig)]
    /\ trace' = Append(trace, "deployment_trigger")
    /\ UNCHANGED <<inp, out, services, calls>>

\* mlflow_model_deployer_step(model=model, deploy_decision=deployment_decision,
\* workers=workers, timeout=timeout): the framework step serves the model
\* when deploy_decision is true
mlflow_model_deployer_step ==
    /\ pc = "triggered"
    /\ pc' = "done"
    /\ calls' = Append(calls, [op |-> "mlflow_model_deployer_step",
                               model |-> art.model,
                               deploy_decision |-> art.deployment_decision,
                               workers |-> inp.workers,
                               timeout |-> inp.timeout])
    /\ services' = IF art.deployment_decision
                   THEN Append(services, DeployedService(Len(services) + 1))
                   ELSE services
    /\ trace' = Append(trace, "mlflow_model_deployer_step")
    /\ UNCHANGED <<inp, art, out>>

NextCD ==
    \/ ingest_df
    \/ clean_df
    \/ train_model
    \/ evaluate_model
    \/ cd_deployment_trigger
    \/ mlflow_model_deployer_step

SpecCD == InitCD /\ [][NextCD]_vars

----------------------------------------------------------------------------
(* inference_pipeline *)

\* the payloads the sample-data step hands on: well-formed tables in the
\* "split" layout with the three keys
ImporterPayloads ==
    {p \in Payloads : /\ p.wellformed
                      /\ p.keys = PayloadKeys
                      /\ p.columns = columns_for_df
                      /\ Len(p.data) <= 1}

NoPayload ==
    [wellformed |-> FALSE, keys |-> {}, columns |-> <<>>, index |-> <<>>,
     data |-> <<>>]

InitInference ==
    /\ pc = "start"
    /\ inp \in [pipeline_name : PipelineNames, pipeline_step_name : StepNames]
    /\ art = [data |-> NoPayload, service |-> NoService]
    /\ out = None
    /\ services \in Registries
    /\ calls = <<>>
    /\ trace = <<>>

\* data = dynamic_importer()
dynamic_importer ==
    /\ pc = "start"
    /\ pc' = "imported"
    /\ \E data \in ImporterPayloads : art' = [art EXCEPT !.data = data]
    /\ trace' = Append(trace, "dynamic_importer")
    /\ UNCHANGED <<inp, out, services, calls>>

\* service = prediction_service_loader(pipeline_name=pipeline_name,
\*     pipeline_step_name=pipeline_step_name, running=False)
inference_prediction_service_loader ==
    /\ pc = "imported"
    /\ LET r == prediction_service_loader(services, inp.pipeline_name,
                    inp.pipeline_step_name, FALSE, "model")
       IN  /\ out' = r
           /\ calls' = calls \o r.calls
           /\ art' = [art EXCEPT !.service = r.service]
           /\ pc' = IF r.raised THEN "failed" ELSE "loaded"
    /\ trace' = Append(trace, "prediction_service_loader")
    /\ UNCHANGED <<inp, services>>

\* prediction = predictor(service=service, data=data)
inference_predictor ==
    /\ pc = "loaded"
    /\ \E start_ok \in BOOLEAN, response \in Responses :
          LET r == predictor(art.service, art.data, start_ok, response)
          IN  /\ out' = r
              /\ calls' = calls \o r.calls
              /\ services' = IF r.started
                             THEN Started(services, art.service.id)
                             ELSE services
              /\ pc' = IF r.raised THEN "failed" ELSE "done"
    /\ trace' = Append(trace, "predictor")
    /\ UNCHANGED <<inp, art>>

NextInference ==
    \/ dynamic_importer
    \/ inference_prediction_service_loader
    \/ inference_predictor

SpecInference == InitInference /\ [][NextInference]_vars

----------------------------------------------------------------------------
\* C1: deployment_trigger(accuracy, config) returns true exactly when
\* accuracy is strictly greater than config.min_accuracy (equal gives false;
\* with the default config, exactly when accuracy > 0); it raises nothing and
\* leaves the deployer's registry and the external calls untouched.
C1_TriggerIffStrictlyGreater ==
    /\ pc = "done" =>
          /\ out.raised = FALSE
          /\ out.value = (inp.accuracy > inp.config.min_accuracy)
          /\ (inp.accuracy = inp.config.min_accuracy => out.value = FALSE)
          /\ (inp.config = DeploymentTriggerConfig =>
                 out.value = (inp.accuracy > 0))
          /\ services = <<>>
          /\ calls = <<>>
    /\ pc \in {"start", "done"}

C1_Witness ==
    /\ pc = "done"
    /\ inp.accuracy = inp.config.min_accuracy
    /\ inp.accuracy # 0
    /\ out.value = FALSE

\* C2: with zero matching services the loader raises and returns no service;
\* with one or more it returns the first element of find_model_server's
\* result and raises nothing.
C2_LoaderFirstOrRaise ==
    pc # "start" =>
        LET found == find_model_server(services, inp.pipeline_name,
                         inp.pipeline_step_name, inp.model_name, inp.running)
        IN  /\ (found = <<>> =>
                   /\ pc = "failed"
                   /\ out.raised
                   /\ out.service = NoService)
            /\ (found # <<>> =>
                   /\ pc = "done"
                   /\ ~out.raised
                   /\ out.service = found[1]
                   /\ \A i \in 2..Len(found) : out.service # found[i])

C2_Witness ==
    /\ pc = "done"
    /\ Len(find_model_server(services, inp.pipeline_name,
               inp.pipeline_step_name, inp.model_name, inp.running)) >= 2
    /\ out.service.id = 1

----------------------------------------------------------------------------
(* Helpers of the properties *)

Last(s) == s[Len(s)]

CallsOf(op) == {c \in 1..Len(calls) : calls[c].op = op}

IsPrefix(s, t) == Len(s) <= Len(t) /\ \A i \in 1..Len(s) : s[i] = t[i]

FullRows(rows) == \A i \in 1..Len(rows) : Len(rows[i]) = Len(columns_for_df)

CDSteps ==
    <<"ingest_df", "clean_df", "train_model", "evaluate_model",
      "deployment_trigger", "mlflow_model_deployer_step">>

ExampleRow == [k \in 1..Len(columns_for_df) |-> k]

\* C3: the deploy_decision handed to the deployer step equals
\* (r2_score > min_accuracy) for the pipeline's min_accuracy argument.
C3_MinAccuracyPassedThrough ==
    pc = "done" =>
        Last(calls).deploy_decision = (art.r2_score > inp.min_accuracy)

\* C4: in inference_pipeline the lookup is made with the running flag true, a
\* matching service that is not running is never selected, and when only
\* non-running services match the pipeline fails with the loader's error.
C4_OnlyRunningServiceSelected ==
    LET ran == "prediction_service_loader" \in {trace[i] : i \in 1..Len(trace)}
        running_matches ==
            find_model_server(services, inp.pipeline_name,
                              inp.pipeline_step_name, "model", TRUE)
    IN  /\ (pc = "loaded" => art.service.is_running)
        /\ (ran /\ Last(trace) = "prediction_service_loader"
               /\ running_matches = <<>> =>
               pc = "failed" /\ out.raised)

\* C5: for a payload whose "data" holds n rows of 12 values, the array given
\* to service.predict has n entries, entry i holds row i's values, the k-th
\* value under the k-th feature name of the fixed order; "columns" and
\* "index" of the payload have no influence.
C5_RowsAndColumnOrderPreserved ==
    LET rows == inp.data.data
        complete == /\ inp.data.wellformed
                    /\ inp.data.keys = PayloadKeys
                    /\ FullRows(rows)
    IN  /\ (pc # "start" /\ complete /\ out.error # "RuntimeError" =>
               CallsOf("predict") # {})
        /\ \A c \in CallsOf("predict") :
              complete =>
                 /\ calls[c].data.shape = <<Len(rows)>>
                 /\ Len(calls[c].data.items) = Len(rows)
                 /\ \A i \in 1..Len(rows) :
                       /\ Len(calls[c].data.items[i]) = Len(columns_for_df)
                       /\ \A k \in 1..Len(columns_for_df) :
                             calls[c].data.items[i][k] =
                                 <<columns_for_df[k], rows[i][k]>>

C5_Witness ==
    /\ pc = "done"
    /\ Len(inp.data.data) = 2
    /\ FullRows(inp.data.data)
    /\ inp.data.data[1] # inp.data.data[2]
    /\ inp.data.columns # columns_for_df
    /\ inp.data.index # <<0, 1>>
    /\ CallsOf("predict") # {}

\* C6 as stated: for "data" = [[1, ..., 12]] service.predict is given the
\* two-dimensional array [[1, ..., 12]], each entry the row's values themselves.
C6_FlatNumericArray ==
    \A c \in CallsOf("predict") :
        inp.data.data = <<ExampleRow>> =>
            /\ calls[c].data.shape = <<1, Len(columns_for_df)>>
            /\ calls[c].data.items = inp.data.data

\* C6 as amended: service.predict is given a one-dimensional array with one
\* entry per row, each entry a mapping from the 12 feature names to the
\* row's values; for "data" = [[1, ..., 12]] it is the one-entry array
\* [{payment_sequential: 1, ..., product_width_cm: 12}].
C6_ArrayOfRowMappings ==
    \A c \in CallsOf("predict") :
        /\ calls[c].data.shape = <<Len(inp.data.data)>>
        /\ \A i \in 1..Len(calls[c].data.items) :
              \A k \in 1..Len(calls[c].data.items[i]) :
                 calls[c].data.items[i][k][1] = columns_for_df[k]
        /\ (inp.data.data = <<ExampleRow>> =>
               /\ calls[c].data.dtype = "object"
               /\ calls[c].data.items =
                      <<[k \in 1..Len(columns_for_df) |-> <<columns_for_df[k], k>>]>>)

C6_Witness ==
    /\ pc = "done"
    /\ inp.data.data = <<ExampleRow>>
    /\ CallsOf("predict") # {}

\* C7: the steps of continuous_deployment_pipeline run in the order ingest,
\* clean, train, evaluate, deployment_trigger, deployer step, each on the
\* previous step's output; the deployer step is invoked once, last, with the
\* trained model and the trigger's result on r2_score, and a model is served
\* only when that result is true.
C7_StepOrderAndSingleDeploy ==
    /\ IsPrefix(trace, CDSteps)
    /\ (pc # "done" => calls = <<>> /\ services = <<>>)
    /\ (pc = "done" =>
           /\ trace = CDSteps
           /\ Len(calls) = 1
           /\ calls[1].op = "mlflow_model_deployer_step"
           /\ calls[1].model = art.model
           /\ art.model.by = "train_model"
           /\ art.model.split = art.split
           /\ art.split.df = art.df
           /\ art.df.data_path = inp.data_path
           /\ art.evaluated = art.model
           /\ calls[1].deploy_decision =
                  deployment_trigger(art.r2_score, DeploymentTriggerConfig)
           /\ (services # <<>> <=> calls[1].deploy_decision)
           /\ Len(services) <= 1)

C7_Witness ==
    /\ pc = "done"
    /\ art.r2_score > 0
    /\ art.rmse < 0
    /\ services # <<>>

\* C8: when no service matches, find_model_server has been queried exactly
\* once, the RuntimeError's message names the pipeline, step and model that
\* were queried, and inference_pipeline ends there: predictor is not run, no
\* service is started and no predict call is made.
C8_FailFastNoRetry ==
    /\ Cardinality(CallsOf("find_model_server")) <= 1
    /\ ("prediction_service_loader" \in {trace[i] : i \in 1..Len(trace)} =>
           /\ Cardinality(CallsOf("find_model_server")) = 1
           /\ calls[1].op = "find_model_server"
           /\ calls[1].query.pipeline_name = inp.pipeline_name
           /\ calls[1].query.pipeline_step_name = inp.pipeline_step_name
           /\ calls[1].query.model_name = "model")
    /\ (pc = "failed" /\ Last(trace) = "prediction_service_loader" =>
           /\ out.raised
           /\ \E i \in 1..Len(out.message) : out.message[i] = inp.pipeline_name
           /\ \E i \in 1..Len(out.message) : out.message[i] = inp.pipeline_step_name
           /\ \E i \in 1..Len(out.message) : out.message[i] = "model"
           /\ Len(calls) = 1
           /\ CallsOf("start") = {}
           /\ CallsOf("predict") = {}
           /\ ~ENABLED inference_predictor)
    /\ (find_model_server(services, inp.pipeline_name, inp.pipeline_step_name,
                          "model", FALSE) = <<>> =>
           /\ pc \in {"start", "imported", "failed"}
           /\ "predictor" \notin {trace[i] : i \in 1..Len(trace)})

C8_Witness ==
    /\ pc = "failed"
    /\ Last(trace) = "prediction_service_loader"
    /\ services # <<>>

\* C9: in every invocation of predictor that completes, service.start was
\* called exactly once, with the fixed timeout, before service.predict, which
\* was called exactly once, and predictor returns what service.predict
\* returned; predict is never issued before start, running service or not.
C9_StartOnceThenPredictOnce ==
    /\ \A c \in CallsOf("predict") :
          \E b \in CallsOf("start") : b < c /\ calls[b].svc = calls[c].svc
    /\ (pc = "done" =>
           /\ Len(calls) = 2
           /\ calls[1] = StartCall(inp.service)
           /\ calls[1].timeout = StartTimeout
           /\ calls[2].op = "predict"
           /\ calls[2].svc = inp.service.id
           /\ ~out.raised
           /\ out.value = calls[2].result)

C9_Witness ==
    /\ pc = "done"
    /\ inp.service.is_running
    /\ out.value = 2

\* C10: for a payload that is not valid JSON or lacks "columns", "index" or
\* "data", predictor ends in an error without calling service.predict, but
\* service.start has been called first, so a service that was stopped and
\* whose start returned is left running.
C10_StartBeforeParse ==
    (pc # "start" /\ (~inp.data.wellformed \/ inp.data.keys # PayloadKeys)) =>
        /\ pc = "failed"
        /\ out.raised
        /\ CallsOf("predict") = {}
        /\ calls = <<StartCall(inp.service)>>
        /\ (out.error # "RuntimeError" =>
               /\ out.error \in {"JSONDecodeError", "KeyError"}
               /\ services[1].is_running)

C10_Witness ==
    /\ pc = "failed"
    /\ ~inp.data.wellformed
    /\ ~inp.service.is_running
    /\ services[1].is_running
    /\ CallsOf("predict") = {}

====
